---- MODULE Spec2Model ----
(***************************************************************************)
(* Model of code/SimpleIdentityServer/create-env-vars.py: set_env_vars()   *)
(* sets every entry of env_vars in os.environ and then persists it with    *)
(* `setx ... /M` (win32) or by appending to /etc/environment (Linux).      *)
(* Text is modelled as text: strings are TLA+ strings, built with \o and   *)
(* taken apart with Len and SubSeq, so that what the code formats is       *)
(* parsed back by the reader of the file or of the command line.           *)
(***************************************************************************)
EXTENDS Integers, Sequences, FiniteSets, TLC

\* ------------------------------------------------------------------ bounds

\* Operating-system processes running the script side by side.
NumProcs == 2
\* Calls of set_env_vars() made one after the other inside one process.
MaxRuns == 2

Procs == 1..NumProcs

\* ------------------------------------------------------------- text helpers

\* s[j] as a one-character string.
Char(s, j) == SubSeq(s, j, j)

\* str.startswith
startswith(s, prefix) ==
    Len(s) >= Len(prefix) /\ SubSeq(s, 1, Len(prefix)) = prefix

\* The positions of character c in s.
Positions(s, c) == {j \in 1..Len(s) : Char(s, j) = c}

\* The k-th smallest element of a finite set of integers.
Nth(S, k) == CHOOSE j \in S : Cardinality({x \in S : x <= j}) = k

\* ------------------------------------------------------------- dictionaries

\* A dict is a function from the set of its keys to their values.
EmptyDict == [k \in {} |-> ""]

\* d[k] = v: insert, or overwrite the value held for k.
SetItem(d, k, v) ==
    [n \in DOMAIN d \cup {k} |-> IF n = k THEN v ELSE d[n]]

\* The items of a dict display { k1: v1, k2: v2, ... } in iteration order: a
\* key written twice keeps the place of its first writing and the value of
\* its last.
DictItems(pairs) ==
    LET first == {j \in 1..Len(pairs) :
                     \A h \in 1..(j - 1) : pairs[h][1] /= pairs[j][1]}
        last(k) == CHOOSE j \in 1..Len(pairs) :
                     /\ pairs[j][1] = k
                     /\ \A h \in (j + 1)..Len(pairs) : pairs[h][1] /= k
    IN  [n \in 1..Cardinality(first) |->
            <<pairs[Nth(first, n)][1], pairs[last(pairs[Nth(first, n)][1])][2]>>]

\* --------------------------------------------------------------- the script

\* The dict display of lines 5-14, as written.
env_vars_display ==
  <<
    <<"SIMPLE_IDENTITY_SERVER_DB_PASSWORD",
      "sample@Strong23Password">>,
    <<"SIMPLE_IDENTITY_SERVER_CERT_PASSWORD",
      "SharedCertPassword123!">>,
    <<"ASPNETCORE_ENVIRONMENT",
      "Production">>,
    <<"ASPNETCORE_URLS",
      "https://+:443">>,
    <<"Kestrel__Certificates__Default__Path",
      "c:\\dev\\ssl\\identity-dev-test.crt">>,
    <<"Kestrel__Certificates__Default__KeyPath",
      "c:\\dev\\ssl\\identity-dev-test.key">>,
    <<"SIMPLE_IDENTITY_SERVER_DEFAULT_CONNECTION_STRING",
      "Server=.,14333;Database=SimpleIdentityServer;MultipleActiveResultSets=true;uid=sa;pwd=sample@Strong23Password;TrustServerCertificate=true;Encrypt=true">>,
    <<"SIMPLE_IDENTITY_SERVER_SECURITY_LOGS_CONNECTION_STRING",
      "Server=.,14333;Database=SimpleIdentityServerSecurityLogs;MultipleActiveResultSets=true;uid=sa;pwd=sample@Strong23Password;TrustServerCertificate=true;Encrypt=true">>
  >>

\* The display with its last entry lost.
env_vars_short ==
    DictItems(SubSeq(env_vars_display, 1, Len(env_vars_display) - 1))

\* env_vars.items(): the entries (key, value) in iteration order.
env_vars ==
    DictItems(env_vars_display)

N == Len(env_vars)
key(j) == env_vars[j][1]
value(j) == env_vars[j][2]
Keys == {key(j) : j \in 1..N}

\* f"Set {key} for current process."
MsgProcess(k) == "Set " \o k \o " for current process."
\* f"Set {key} system-wide (Windows)."
MsgWindows(k) == "Set " \o k \o " system-wide (Windows)."
\* f"Appended {key} to /etc/environment (Linux)."
MsgLinux(k) == "Appended " \o k \o " to /etc/environment (Linux)."

\* f'setx {key} "{value}"': the command without the machine-scope switch.
SetxCommandUser(k, v) == "setx " \o k \o " \"" \o v \o "\""

\* f'setx {key} "{value}" /M'
SetxCommand(k, v) == "setx " \o k \o " \"" \o v \o "\" /M"

\* f'{key}={value}\n': the line without the quotes.
LineBare(k, v) == k \o "=" \o v \o "\n"

\* f'{key}="{value}"\n'
Line(k, v) == k \o "=\"" \o v \o "\"\n"

\* sys.platform == "win32" / sys.platform.startswith("linux") with the elif
\* taken as an else.
PlatformKindElse(plat) ==
    IF plat = "win32" THEN "Windows" ELSE "Linux"

\* The branch of lines 23-28 that sys.platform selects.
PlatformKind(plat) ==
    IF plat = "win32" THEN "Windows"
    ELSE IF startswith(plat, "linux") THEN "Linux"
    ELSE "Other"

\* open(path, "w"): the content is dropped.
OpenTruncate(content) == SubSeq(content, 1, 0)

\* open(path, "a"): the content is kept and every write goes to its end.
OpenAppend(content) == SubSeq(content, 1, Len(content))

\* io.DEFAULT_BUFFER_SIZE: the size of the buffer of a file object opened
\* without a buffering argument.
DEFAULT_BUFFER_SIZE == 8192

\* A file object that holds nothing back (buffering=0, or a flush per write).
FitsNever(pending, text) == FALSE

\* env_file.write(text) on the buffered file object: the text is held back
\* with what is pending while both fit the buffer; nothing reaches the file
\* before the buffer overflows or the file object is closed.
Fits(pending, text) == Len(pending) + Len(text) <= DEFAULT_BUFFER_SIZE

\* ------------------------------------------------- the readers of the output

\* The lines of a text: the pieces that end in "\n", without it.
LinesOf(s) ==
    LET nl == Positions(s, "\n")
        from(n) == IF n = 1 THEN 1 ELSE Nth(nl, n - 1) + 1
    IN  [n \in 1..Cardinality(nl) |-> SubSeq(s, from(n), Nth(nl, n) - 1)]

\* What follows the last "\n" of a text: a line that is not (yet) whole.
Unterminated(s) ==
    LET nl == Positions(s, "\n")
        last == IF nl = {} THEN 0 ELSE Nth(nl, Cardinality(nl))
    IN  SubSeq(s, last + 1, Len(s))

\* A line of /etc/environment of the form NAME="VALUE", read as <<NAME, VALUE>>;
\* <<>> for a line of any other form.
ParseEnvLine(l) ==
    LET eq == Positions(l, "=")
        e == IF eq = {} THEN 0 ELSE Nth(eq, 1)
    IN  IF /\ e > 1
           /\ Len(l) >= e + 2
           /\ Char(l, e + 1) = "\""
           /\ Char(l, Len(l)) = "\""
           /\ Positions(SubSeq(l, e + 2, Len(l) - 1), "\"") = {}
        THEN <<SubSeq(l, 1, e - 1), SubSeq(l, e + 2, Len(l) - 1)>>
        ELSE <<>>

\* The arguments the started program receives from a command line: split at
\* the blanks outside double quotes, the quotes taken off.
Argv(cmd) ==
    LET quotes == Positions(cmd, "\"")
        outside(j) == Cardinality({x \in quotes : x < j}) % 2 = 0
        cuts == {j \in Positions(cmd, " ") : outside(j)}
        from(n) == IF n = 1 THEN 1 ELSE Nth(cuts, n - 1) + 1
        to(n) == IF n = Cardinality(cuts) + 1 THEN Len(cmd) ELSE Nth(cuts, n) - 1
        unquote(a) == IF Len(a) >= 2 /\ Char(a, 1) = "\"" /\ Char(a, Len(a)) = "\""
                      THEN SubSeq(a, 2, Len(a) - 1) ELSE a
    IN  [n \in 1..(Cardinality(cuts) + 1) |-> unquote(SubSeq(cmd, from(n), to(n)))]

\* What `setx NAME VALUE [/M]` stores: the machine environment with /M, the
\* user's without.
SetxStore(store, argv) ==
    IF Len(argv) >= 3 /\ argv[1] = "setx"
    THEN LET scope == IF Len(argv) >= 4 /\ argv[4] = "/M" THEN "machine" ELSE "user"
         IN  [store EXCEPT ![scope] = SetItem(store[scope], argv[2], argv[3])]
    ELSE store

\* -------------------------------------------------------------------- state

VARIABLES
    platform,        \* sys.platform of the host
    privileged,      \* whether the script runs as Administrator / root
    environ,         \* os.environ of each process
    etc_environment, \* the content of /etc/environment
    winenv,          \* the persistent Windows environment, per scope
    stdout,          \* the lines each process has printed
    pc,              \* where each process is in the script
    i,               \* the entry the current for loop is at
    env_file,        \* the text env_file holds back (its buffer)
    runs,            \* the calls of set_env_vars() each process has made
    setx_calls,      \* every command handed to subprocess.run: [pid, run, cmd, rc]
    file_writes,     \* every write that reached /etc/environment: [pid, run, text]
    opens,           \* the open() calls made by each process
    fault,           \* the fault the current run met: [kind, at]
    at_call,         \* what each process saw when it called set_env_vars()
    after_run,       \* os.environ after each completed run of each process
    file0            \* /etc/environment before any run

vars == <<platform, privileged, environ, etc_environment, winenv, stdout, pc, i, env_file,
          runs, setx_calls, file_writes, opens, fault, at_call, after_run, file0>>

NoFault == [kind |-> "none", at |-> 0]

\* The hosts, environments and files a run may start from.
Platforms == {"win32", "linux", "linux2", "darwin"}

InitEnvs ==
    { EmptyDict,
      SetItem(SetItem(SetItem(EmptyDict, "PATH", "/usr/bin"),
                      "ASPNETCORE_ENVIRONMENT", "Development"),
              "SIMPLE_IDENTITY_SERVER_DB_PASSWORD", "old") }

InitFiles ==
    { "",
      "PATH=\"/usr/bin\"\n",
      "ASPNETCORE_ENVIRONMENT=\"Development\"\nLANG=C" }

Init ==
    /\ platform \in Platforms
    /\ privileged \in BOOLEAN
    /\ \E e \in InitEnvs : environ = [p \in Procs |-> e]
    /\ etc_environment \in InitFiles
    /\ file0 = etc_environment
    /\ winenv = [machine |-> EmptyDict, user |-> EmptyDict]
    /\ stdout = [p \in Procs |-> <<>>]
    /\ pc = [p \in Procs |-> "start"]
    /\ i = [p \in Procs |-> 1]
    /\ env_file = [p \in Procs |-> ""]
    /\ runs = [p \in Procs |-> 0]
    /\ setx_calls = <<>>
    /\ file_writes = <<>>
    /\ opens = [p \in Procs |-> 0]
    /\ fault = [p \in Procs |-> NoFault]
    /\ at_call = [p \in Procs |->
                    [file |-> etc_environment, out |-> 0, env |-> environ[p]]]
    /\ after_run = [p \in Procs |-> <<>>]

\* ------------------------------------------------------------------ actions

\* The entries of one call: a new run starts with nothing pending and no fault.
Enter(p) ==
    /\ runs[p] < MaxRuns
    /\ runs' = [runs EXCEPT ![p] = @ + 1]
    /\ pc' = [pc EXCEPT ![p] = "process"]
    /\ i' = [i EXCEPT ![p] = 1]
    /\ fault' = [fault EXCEPT ![p] = NoFault]
    /\ at_call' = [at_call EXCEPT ![p] =
                      [file |-> etc_environment, out |-> Len(stdout[p]),
                       env |-> environ[p]]]
    /\ UNCHANGED <<platform, privileged, environ, etc_environment, winenv, stdout, env_file,
                   setx_calls, file_writes, opens, after_run, file0>>

\* Line 35: the script calls set_env_vars().
Call(p) ==
    /\ pc[p] = "start"
    /\ Enter(p)

\* set_env_vars() is called again in a process in which it has returned.
CallAgain(p) ==
    /\ pc[p] = "done"
    /\ Enter(p)

\* Lines 18-20 with the assignment left out for a name already set.
SetProcessEnvDefault(p) ==
    /\ pc[p] = "process"
    /\ i[p] <= N
    /\ environ' = [environ EXCEPT ![p] =
                      IF key(i[p]) \in DOMAIN @ THEN @
                      ELSE SetItem(@, key(i[p]), value(i[p]))]
    /\ stdout' = [stdout EXCEPT ![p] = Append(@, MsgProcess(key(i[p])))]
    /\ i' = [i EXCEPT ![p] = @ + 1]
    /\ UNCHANGED <<platform, privileged, etc_environment, winenv, pc, env_file, runs,
                   setx_calls, file_writes, opens, fault, at_call, after_run,
                   file0>>

\* Lines 18-20, one turn of the loop: os.environ[key] = value, then print.
SetProcessEnv(p) ==
    /\ pc[p] = "process"
    /\ i[p] <= N
    /\ environ' = [environ EXCEPT ![p] = SetItem(@, key(i[p]), value(i[p]))]
    /\ stdout' = [stdout EXCEPT ![p] = Append(@, MsgProcess(key(i[p])))]
    /\ i' = [i EXCEPT ![p] = @ + 1]
    /\ UNCHANGED <<platform, privileged, etc_environment, winenv, pc, env_file, runs,
                   setx_calls, file_writes, opens, fault, at_call, after_run,
                   file0>>

\* set_env_vars() returns in process p.
Returned(p) ==
    after_run' = [after_run EXCEPT ![p] = Append(@, environ[p])]

\* Lines 23 and 28 taken while the first loop still has entries to set.
DispatchEarly(p) ==
    /\ pc[p] = "process"
    /\ LET kind == PlatformKind(platform)
       IN  /\ pc' = [pc EXCEPT ![p] = CASE kind = "Windows" -> "windows"
                                        [] kind = "Linux" -> "linux_open"
                                        [] OTHER -> "done"]
           /\ i' = [i EXCEPT ![p] = 1]
           /\ IF kind = "Other" THEN Returned(p) ELSE UNCHANGED after_run
    /\ UNCHANGED <<platform, privileged, environ, etc_environment, winenv, stdout, env_file,
                   runs, setx_calls, file_writes, opens, fault, at_call, file0>>

\* Lines 23 and 28, reached when the first loop is over: the branch on
\* sys.platform; with neither branch taken the function returns.
Dispatch(p) ==
    /\ pc[p] = "process"
    /\ i[p] > N
    /\ LET kind == PlatformKind(platform)
       IN  /\ pc' = [pc EXCEPT ![p] = CASE kind = "Windows" -> "windows"
                                        [] kind = "Linux" -> "linux_open"
                                        [] OTHER -> "done"]
           /\ i' = [i EXCEPT ![p] = 1]
           /\ IF kind = "Other" THEN Returned(p) ELSE UNCHANGED after_run
    /\ UNCHANGED <<platform, privileged, environ, etc_environment, winenv, stdout, env_file,
                   runs, setx_calls, file_writes, opens, fault, at_call, file0>>

\* The exit status of `setx ... /M`: writing the machine environment needs
\* an elevated shell; without one setx reports the denied access and exits 1.
SetxStatus == IF privileged THEN 0 ELSE 1

\* Lines 25-27, one turn of the loop: subprocess.run(cmd, shell=True) runs
\* the command and returns whatever its exit status rc is (no check=True),
\* then print.  setx stores the variable when it succeeds (rc = 0).
RunSetx(p) ==
    /\ pc[p] = "windows"
    /\ i[p] <= N
    /\ \E cmd \in {SetxCommand(key(i[p]), value(i[p]))}, rc \in {SetxStatus} :
           /\ setx_calls' = Append(setx_calls,
                  [pid |-> p, run |-> runs[p], cmd |-> cmd, rc |-> rc])
           /\ \E argv \in {Argv(cmd)} :
                 winenv' = IF rc = 0 THEN SetxStore(winenv, argv) ELSE winenv
           /\ fault' = [fault EXCEPT ![p] =
                          IF rc /= 0 /\ @.kind = "none"
                          THEN [kind |-> "exit", at |-> i[p]] ELSE @]
    /\ stdout' = [stdout EXCEPT ![p] = Append(@, MsgWindows(key(i[p])))]
    /\ i' = [i EXCEPT ![p] = @ + 1]
    /\ UNCHANGED <<platform, privileged, environ, etc_environment, pc, env_file,
                   runs, file_writes, opens, at_call, after_run, file0>>

\* Line 26 with the exception caught and passed over: the loop goes on.
RunSetxSwallows(p) ==
    /\ pc[p] = "windows"
    /\ i[p] <= N
    /\ fault' = [fault EXCEPT ![p] = [kind |-> "spawn", at |-> i[p]]]
    /\ i' = [i EXCEPT ![p] = @ + 1]
    /\ UNCHANGED <<platform, privileged, environ, etc_environment, winenv, stdout, pc,
                   env_file, runs, setx_calls, file_writes, opens, at_call,
                   after_run, file0>>

\* Line 26: subprocess.run raises (the shell cannot be started); nothing
\* catches the exception and the run ends there.
RunSetxRaises(p) ==
    /\ pc[p] = "windows"
    /\ i[p] <= N
    /\ pc' = [pc EXCEPT ![p] = "aborted"]
    /\ fault' = [fault EXCEPT ![p] = [kind |-> "spawn", at |-> i[p]]]
    /\ UNCHANGED <<platform, privileged, environ, etc_environment, winenv, stdout, i,
                   env_file, runs, setx_calls, file_writes, opens, at_call,
                   after_run, file0>>

\* The Windows loop is over: the function returns.
Return(p) ==
    /\ pc[p] = "windows"
    /\ i[p] > N
    /\ pc' = [pc EXCEPT ![p] = "done"]
    /\ Returned(p)
    /\ UNCHANGED <<platform, privileged, environ, etc_environment, winenv, stdout, i,
                   env_file, runs, setx_calls, file_writes, opens, fault,
                   at_call, file0>>

\* Line 29: open("/etc/environment", "a") succeeds; the file is root's.
OpenFile(p) ==
    /\ pc[p] = "linux_open"
    /\ privileged
    /\ opens' = [opens EXCEPT ![p] = @ + 1]
    /\ etc_environment' = OpenAppend(etc_environment)
    /\ env_file' = [env_file EXCEPT ![p] = ""]
    /\ pc' = [pc EXCEPT ![p] = "linux"]
    /\ i' = [i EXCEPT ![p] = 1]
    /\ UNCHANGED <<platform, privileged, environ, winenv, stdout, runs, setx_calls,
                   file_writes, fault, at_call, after_run, file0>>

\* Line 29 with the failure handled by undoing the first loop.
OpenFileFailsRollback(p) ==
    /\ pc[p] = "linux_open"
    /\ opens' = [opens EXCEPT ![p] = @ + 1]
    /\ pc' = [pc EXCEPT ![p] = "aborted"]
    /\ fault' = [fault EXCEPT ![p] = [kind |-> "open", at |-> 1]]
    /\ environ' = [environ EXCEPT ![p] =
                      [n \in DOMAIN @ \ Keys |-> @[n]]]
    /\ UNCHANGED <<platform, privileged, etc_environment, winenv, stdout, i, env_file,
                   runs, setx_calls, file_writes, at_call, after_run, file0>>

\* Line 29: open raises (PermissionError and the like); nothing catches the
\* exception and the run ends there.
OpenFileFails(p) ==
    /\ pc[p] = "linux_open"
    /\ opens' = [opens EXCEPT ![p] = @ + 1]
    /\ pc' = [pc EXCEPT ![p] = "aborted"]
    /\ fault' = [fault EXCEPT ![p] = [kind |-> "open", at |-> 1]]
    /\ UNCHANGED <<platform, privileged, environ, etc_environment, winenv, stdout, i,
                   env_file, runs, setx_calls, file_writes, at_call, after_run,
                   file0>>

\* One write(2) of process p on the descriptor opened with O_APPEND: the
\* text goes to the end of the file as it is then.
Write2(p, text) ==
    IF text = "" THEN UNCHANGED <<etc_environment, file_writes>>
    ELSE /\ etc_environment' = etc_environment \o text
         /\ file_writes' = Append(file_writes,
                [pid |-> p, run |-> runs[p], text |-> text])

\* Lines 31-32, one turn of the loop: env_file.write(line), then print.
WriteLine(p) ==
    /\ pc[p] = "linux"
    /\ i[p] <= N
    /\ LET text == Line(key(i[p]), value(i[p]))
       IN  IF Fits(env_file[p], text)
           THEN /\ env_file' = [env_file EXCEPT ![p] = @ \o text]
                /\ UNCHANGED <<etc_environment, file_writes>>
           ELSE /\ Write2(p, env_file[p])
                /\ env_file' = [env_file EXCEPT ![p] = text]
    /\ stdout' = [stdout EXCEPT ![p] = Append(@, MsgLinux(key(i[p])))]
    /\ i' = [i EXCEPT ![p] = @ + 1]
    /\ UNCHANGED <<platform, privileged, environ, winenv, pc, runs, setx_calls, opens,
                   fault, at_call, after_run, file0>>

\* Line 29, leaving the with block: env_file is closed, what it held back is
\* written, and the function returns.
CloseFile(p) ==
    /\ pc[p] = "linux"
    /\ i[p] > N
    /\ Write2(p, env_file[p])
    /\ env_file' = [env_file EXCEPT ![p] = ""]
    /\ pc' = [pc EXCEPT ![p] = "done"]
    /\ Returned(p)
    /\ UNCHANGED <<platform, privileged, environ, winenv, stdout, i, runs, setx_calls,
                   opens, fault, at_call, file0>>

\* How much of a text a failing write may still have put in the file: none,
\* some whole lines, or some whole lines and the first byte of the next.
ShortWrites(text) ==
    {n \in {0} \cup Positions(text, "\n")
           \cup {j + 1 : j \in Positions(text, "\n")} : n < Len(text)}

\* Line 29, leaving the with block: the write of what env_file held back
\* fails (disk full, I/O error) after n bytes; the exception leaves
\* set_env_vars and the run ends there.
CloseFileFails(p) ==
    /\ pc[p] = "linux"
    /\ i[p] > N
    /\ env_file[p] /= ""
    /\ \E n \in ShortWrites(env_file[p]) :
        /\ Write2(p, SubSeq(env_file[p], 1, n))
        /\ fault' = [fault EXCEPT ![p] =
              [kind |-> "write",
               at |-> N + 1 - Cardinality(
                        {j \in Positions(env_file[p], "\n") : j > n})]]
    /\ env_file' = [env_file EXCEPT ![p] = ""]
    /\ pc' = [pc EXCEPT ![p] = "aborted"]
    /\ UNCHANGED <<platform, privileged, environ, winenv, stdout, i, runs, setx_calls,
                   opens, at_call, after_run, file0>>

\* ----------------------------------------------------------- specifications

\* One process; set_env_vars() may be called again once it has returned.
Solo == {1}

Next ==
    \E p \in Solo :
        \/ Call(p)
        \/ CallAgain(p)
        \/ SetProcessEnv(p)
        \/ Dispatch(p)
        \/ RunSetx(p)
        \/ RunSetxRaises(p)
        \/ Return(p)
        \/ OpenFile(p)
        \/ OpenFileFails(p)
        \/ WriteLine(p)
        \/ CloseFile(p)
        \/ CloseFileFails(p)

Spec == Init /\ [][Next]_vars

\* The interpreter runs the script's next statement: no step waits for ever.
FairSpec == Spec /\ WF_vars(Next)

\* Every process runs the script once, on a Linux host, side by side with the
\* others; no fault.
InitConc ==
    /\ Init
    /\ PlatformKind(platform) = "Linux"
    /\ privileged

NextConc ==
    \E p \in Procs :
        \/ Call(p)
        \/ SetProcessEnv(p)
        \/ Dispatch(p)
        \/ OpenFile(p)
        \/ WriteLine(p)
        \/ CloseFile(p)

SpecConc == InitConc /\ [][NextConc]_vars

\* ------------------------------------------------------ what the claims use

\* The classification of the host, by the values sys.platform takes.
IsWindows == platform = "win32"
IsLinux == platform \in {"linux", "linux2"}
IsOther == platform \notin {"win32", "linux", "linux2"}

\* Every entry of the ConfigSet is in environment e with its configured value.
Provisioned(e) ==
    \A j \in 1..N : key(j) \in DOMAIN e /\ e[key(j)] = value(j)

\* What process p has printed in its current run.
RunOut(p) == SubSeq(stdout[p], at_call[p].out + 1, Len(stdout[p]))

\* str.endswith
endswith(s, suffix) ==
    Len(s) >= Len(suffix) /\ SubSeq(s, Len(s) - Len(suffix) + 1, Len(s)) = suffix

\* A progress line of the process-scope phase, for whatever name.
IsProcessLine(l) ==
    startswith(l, "Set ") /\ endswith(l, " for current process.")

\* A progress line of the persistence phase, for whatever name.
IsPersistLine(l) ==
    \/ startswith(l, "Set ") /\ endswith(l, " system-wide (Windows).")
    \/ startswith(l, "Appended ") /\ endswith(l, " to /etc/environment (Linux).")

\* The progress lines of each phase among those of the current run.
ProcessOut(p) == SelectSeq(RunOut(p), IsProcessLine)
PersistOut(p) == SelectSeq(RunOut(p), IsPersistLine)

\* The commands process p has handed to the shell in its current run.
RunCalls(p) ==
    SelectSeq(setx_calls, LAMBDA c : c.pid = p /\ c.run = runs[p])

\* What the current run of process p has put in /etc/environment, when no
\* other process writes: the text after the content found at the call.
Added(p) ==
    SubSeq(etc_environment, Len(at_call[p].file) + 1, Len(etc_environment))

\* The text after the content /etc/environment had before any run.
AddedSince0 == SubSeq(etc_environment, Len(file0) + 1, Len(etc_environment))

\* Text t is whole lines, the j-th of them NAME="VALUE" for entry
\* ((j - 1) mod N) + 1: the entries in ConfigSet order, `copies` times over.
IsCopies(t, copies) ==
    LET lines == LinesOf(t)
    IN  /\ Unterminated(t) = ""
        /\ Len(lines) = copies * N
        /\ \A j \in 1..(copies * N) :
              ParseEnvLine(lines[j]) = <<key(((j - 1) % N) + 1),
                                         value(((j - 1) % N) + 1)>>

\* ------------------------------------------------------------------ claims

\* C1: after set_env_vars has run to completion, on any platform, the process
\* environment maps the name of every ConfigSet entry to exactly its value,
\* whatever the name held before.
C1_ProcessEnvSet ==
    \A p \in Procs : pc[p] = "done" => Provisioned(environ[p])

\* C1's case: a completed run that found one entry's name set to another
\* value and another entry's name not set at all.
C1_Witness ==
    \E p \in Procs :
        /\ pc[p] = "done"
        /\ \E j \in 1..N : /\ key(j) \in DOMAIN at_call[p].env
                           /\ at_call[p].env[key(j)] /= value(j)
        /\ \E j \in 1..N : key(j) \notin DOMAIN at_call[p].env
        /\ runs[p] = 1

\* C2: on a Linux-classified run that completes, /etc/environment is its
\* content before the run, unchanged, followed by exactly one line per
\* ConfigSet entry, in ConfigSet order, each line NAME="VALUE" of its entry.
C2_LinuxAppend ==
    \A p \in Procs :
        (pc[p] = "done" /\ IsLinux) =>
            /\ Len(etc_environment) >= Len(at_call[p].file)
            /\ SubSeq(etc_environment, 1, Len(at_call[p].file)) = at_call[p].file
            /\ IsCopies(Added(p), 1)

\* C2's case: a completed Linux run on a file that had content before it.
C2_Witness ==
    \E p \in Procs :
        /\ pc[p] = "done"
        /\ IsLinux
        /\ Len(at_call[p].file) > 0
        /\ Len(etc_environment) > Len(at_call[p].file)

\* C3: on a Windows-classified run that completes, setx has been invoked
\* exactly once for each ConfigSet entry, in order, with the entry's name and
\* value and the machine-scope switch /M, and for nothing else; no command
\* handed to the shell at any time is without /M or names another variable.
C3_SetxOncePerEntry ==
    /\ \A n \in 1..Len(setx_calls) :
          LET argv == Argv(setx_calls[n].cmd)
          IN  /\ Len(argv) = 4
              /\ argv[1] = "setx"
              /\ argv[2] \in Keys
              /\ argv[4] = "/M"
    /\ \A p \in Procs :
          (pc[p] = "done" /\ IsWindows) =>
              /\ Len(RunCalls(p)) = N
              /\ \A j \in 1..N :
                    Argv(RunCalls(p)[j].cmd) = <<"setx", key(j), value(j), "/M">>

\* C3's case: a completed Windows run whose setx invocations succeeded.
C3_Witness ==
    \E p \in Procs :
        /\ pc[p] = "done"
        /\ IsWindows
        /\ Len(RunCalls(p)) > 0
        /\ Provisioned(winenv.machine)

\* C4, the state part: on a host that is neither win32 nor linux..., no
\* process is ever in a persistence branch or aborted, setx is never invoked,
\* /etc/environment is never opened or changed, and a run that is done has set
\* every ConfigSet entry in the process environment.
C4_OtherInv ==
    IsOther =>
        /\ setx_calls = <<>>
        /\ file_writes = <<>>
        /\ etc_environment = file0
        /\ winenv = [machine |-> EmptyDict, user |-> EmptyDict]
        /\ \A p \in Procs :
              /\ opens[p] = 0
              /\ pc[p] \in {"start", "process", "done"}
              /\ PersistOut(p) = <<>>
              /\ pc[p] = "done" => Provisioned(environ[p])

\* C4: on a run classified as Other no persistence action occurs at all; the
\* process-scope phase still sets every entry and the run reaches Done.
C4_OtherNoPersistence ==
    /\ []C4_OtherInv
    /\ \A p \in Solo : [](IsOther /\ pc[p] = "process" => <>(pc[p] = "done"))

\* C4's case: a run on another platform is done.
C4_Witness ==
    \E p \in Procs :
        /\ pc[p] = "done"
        /\ IsOther
        /\ Len(RunOut(p)) = N

\* C5: when opening /etc/environment fails on Linux, the run is aborted with
\* nothing written (the file is what it was at the call, no "Appended" line
\* is printed) and every ConfigSet entry is still in the process environment
\* with its configured value.
C5_OpenFailsNoRollback ==
    \A p \in Procs :
        fault[p].kind = "open" =>
            /\ pc[p] = "aborted"
            /\ IsLinux
            /\ etc_environment = at_call[p].file
            /\ \A n \in 1..Len(file_writes) :
                  ~(file_writes[n].pid = p /\ file_writes[n].run = runs[p])
            /\ PersistOut(p) = <<>>
            /\ Provisioned(environ[p])

\* C5's case: the open has failed in a run whose first phase changed the
\* process environment.
C5_Witness ==
    \E p \in Procs :
        /\ fault[p].kind = "open"
        /\ pc[p] = "aborted"
        /\ ~Provisioned(at_call[p].env)

\* C6: set_env_vars run to completion k times in succession on Linux leaves
\* /etc/environment with its original content followed by k copies of the
\* ConfigSet's lines (two copies of each line after two runs: nothing is
\* deduplicated), and the process environment after every run is the one
\* after the first.
C6_TwiceOnLinux ==
    \A p \in Solo :
        (pc[p] = "done" /\ IsLinux) =>
            /\ Len(after_run[p]) = runs[p]
            /\ SubSeq(etc_environment, 1, Len(file0)) = file0
            /\ IsCopies(AddedSince0, runs[p])
            /\ \A r \in 1..Len(after_run[p]) : after_run[p][r] = after_run[p][1]
            /\ after_run[p][runs[p]] = environ[p]

\* C6's case: the second run in succession on Linux is done.
C6_Witness ==
    \E p \in Solo :
        /\ pc[p] = "done"
        /\ IsLinux
        /\ runs[p] = 2
        /\ Len(LinesOf(AddedSince0)) = 2 * N

\* The faults that raise an exception.
Raised == {"open", "write", "spawn"}

\* C7 as stated: every fault of the persistence phase, a failed setx
\* invocation included, aborts the run at the entry k it occurs at, and no
\* progress line of the persistence phase is printed for entry k or a later
\* one.
C7_EveryFaultAborts ==
    \A p \in Procs :
        fault[p].kind /= "none" =>
            /\ pc[p] = "aborted"
            /\ Len(PersistOut(p)) < fault[p].at

\* C7 amended, the state part.
C7_Inv ==
    \A p \in Procs :
        /\ pc[p] = "aborted" <=> fault[p].kind \in Raised
        /\ pc[p] = "aborted" =>
              /\ Len(after_run[p]) = runs[p] - 1
              /\ Provisioned(environ[p])
        /\ fault[p].kind = "spawn" =>
              /\ Len(RunCalls(p)) = fault[p].at - 1
              /\ Len(PersistOut(p)) = fault[p].at - 1
              /\ \A j \in 1..Len(RunCalls(p)) :
                    Argv(RunCalls(p)[j].cmd)[2] = key(j)
        /\ fault[p].kind = "open" =>
              /\ etc_environment = at_call[p].file
              /\ PersistOut(p) = <<>>
        /\ fault[p].kind = "write" =>
              /\ SubSeq(etc_environment, 1, Len(at_call[p].file)) = at_call[p].file
              /\ LET lines == LinesOf(Added(p))
                 IN  /\ Len(lines) = fault[p].at - 1
                     /\ \A j \in 1..Len(lines) :
                           ParseEnvLine(lines[j]) = env_vars[j]
              /\ Len(Unterminated(Added(p))) <= 1
              /\ Len(PersistOut(p)) = N
        /\ fault[p].kind = "exit" =>
              /\ pc[p] \in {"windows", "done"}
              /\ Len(PersistOut(p)) >= fault[p].at
              /\ Len(RunCalls(p)) = Len(PersistOut(p))
              /\ key(fault[p].at) \notin DOMAIN winenv.machine

\* C7 amended, the step part: an aborted run does nothing more.
C7_Frozen ==
    \A p \in Solo : pc[p] = "aborted" => UNCHANGED vars

\* C7 amended: a fault that raises (a failed open, a failed write of the
\* buffered text when the file is closed, a shell that cannot be started)
\* aborts the run, which never completes and does nothing more: what was
\* persisted before the fault stays, nothing is persisted after it.  A setx
\* that exits non-zero raises nothing: the run goes on, prints the entry's
\* progress line and completes.  A failed write surfaces at the close, after
\* all the "Appended" lines are printed.
C7_RaisedFaultsAbort ==
    /\ []C7_Inv
    /\ [][C7_Frozen]_vars

\* C7's case: the shell could not be started at an entry after the first,
\* after setx had exited non-zero for the entries before it.
C7_Witness ==
    \E p \in Solo :
        /\ pc[p] = "aborted"
        /\ fault[p].kind = "spawn"
        /\ fault[p].at > 1
        /\ \E n \in 1..Len(RunCalls(p)) : RunCalls(p)[n].rc /= 0
        /\ Len(PersistOut(p)) = fault[p].at - 1

\* The phase a process is in: Start, the process-scope phase, its end
\* (ProcessScopeApplied), the persistence branch, Done; or aborted by a fault.
Phase(p) ==
    CASE pc[p] = "start" -> 0
      [] pc[p] = "process" /\ i[p] <= N -> 1
      [] pc[p] = "process" /\ i[p] > N -> 2
      [] pc[p] \in {"windows", "linux_open", "linux"} -> 3
      [] pc[p] = "done" -> 4
      [] OTHER -> 5

\* C8, the state part: no persistence action of a run comes before the
\* process-scope phase has set every entry, and no entry is handled twice in
\* a phase of a run.
C8_Inv ==
    \A p \in Procs :
        /\ (\/ Phase(p) = 3
            \/ RunCalls(p) /= <<>>
            \/ PersistOut(p) /= <<>>
            \/ (pc[p] /= "start" /\ Added(p) /= "")) =>
              /\ Provisioned(environ[p])
              /\ Len(ProcessOut(p)) = N
              /\ SubSeq(RunOut(p), 1, N) = ProcessOut(p)
        /\ \A a, b \in 1..Len(RunOut(p)) : RunOut(p)[a] = RunOut(p)[b] => a = b
        /\ \A a, b \in 1..Len(RunCalls(p)) :
              RunCalls(p)[a].cmd = RunCalls(p)[b].cmd => a = b
        /\ Len(ProcessOut(p)) <= N /\ Len(PersistOut(p)) <= N
        /\ pc[p] = "windows" => IsWindows
        /\ pc[p] \in {"linux_open", "linux"} => IsLinux

\* C8, the step part: a run only moves forward through the phases, one at a
\* time; the only step out of Done is a new call, which starts a new run.
C8_Forward ==
    \A p \in Procs :
        \/ Phase(p)' = Phase(p)
        \/ Phase(p) < 4 /\ Phase(p)' = Phase(p) + 1
        \/ Phase(p) = 2 /\ Phase(p)' = 4 /\ IsOther
        \/ Phase(p) = 3 /\ Phase(p)' = 5 /\ fault'[p].kind \in Raised
        \/ Phase(p) = 4 /\ Phase(p)' = 1 /\ runs'[p] = runs[p] + 1

\* C8: a run goes Start, ProcessScopeApplied, PersistencePhaseDispatched,
\* Done in that order and never back; no persistence action comes before
\* every entry is set in the process environment; no entry is handled twice
\* in a phase; and a run that meets no fault reaches Done.
C8_PhasesInOrder ==
    /\ []C8_Inv
    /\ [][C8_Forward]_vars
    /\ \A p \in Solo :
          [](pc[p] = "process" => <>(pc[p] = "done" \/ fault[p].kind \in Raised))

\* C8's case: a run is done whose persistence phase handled every entry.
C8_Witness ==
    \E p \in Solo :
        /\ pc[p] = "done"
        /\ Len(ProcessOut(p)) = N
        /\ Len(PersistOut(p)) = N
        /\ fault[p].kind = "none"

\* The texts of a sequence of writes, one after the other.
RECURSIVE JoinWrites(_)
JoinWrites(ws) ==
    IF ws = <<>> THEN "" ELSE ws[1].text \o JoinWrites(Tail(ws))

\* The writes of process p among those that reached the file.
WritesOf(p) == SelectSeq(file_writes, LAMBDA w : w.pid = p)

C10_SevenEntries ==
    \A p \in Procs :
        pc[p] = "done" =>
            /\ Len(ProcessOut(p)) = 7
            /\ at_call[p].env = EmptyDict => Cardinality(DOMAIN environ[p]) = 7

\* C10 amended: the ConfigSet has exactly eight entries with pairwise distinct
\* names, so a completed run sets exactly eight named variables in the
\* process environment, and issues eight setx invocations on Windows or
\* appends eight lines on Linux.
C10_EightEntries ==
    /\ \A a, b \in 1..N : key(a) = key(b) => a = b
    /\ \A p \in Procs :
          pc[p] = "done" =>
              /\ Len(ProcessOut(p)) = 8
              /\ Cardinality({ProcessOut(p)[n] : n \in 1..Len(ProcessOut(p))}) = 8
              /\ at_call[p].env = EmptyDict => Cardinality(DOMAIN environ[p]) = 8
              /\ IsWindows => Len(RunCalls(p)) = 8
              /\ IsLinux => Len(LinesOf(Added(p))) = 8
              /\ IsOther => Len(RunCalls(p)) = 0 /\ Added(p) = ""

\* C10's case: a run is done on Windows, with its setx invocations made.
C10_Witness ==
    \E p \in Procs :
        /\ pc[p] = "done"
        /\ IsWindows
        /\ Len(RunCalls(p)) = Cardinality(Keys)

====
